---- MODULE Spec2Model ----
(***************************************************************************)
(* A model of the App component of src/src/App.tsx: the view controller    *)
(* that holds the selected station, the search text, the last schedule     *)
(* snapshot and the loading flag, polls the schedule API every 20 seconds  *)
(* and renders the snapshot.                                               *)
(*                                                                         *)
(* Strings the code inspects character by character (station names, ids,   *)
(* the search text) are sequences of one-character strings; a CJK          *)
(* character is written as its code point ("u5143").                       *)
(***************************************************************************)
EXTENDS Integers, Sequences, FiniteSets, TLC

VARIABLES
    search,      \* useState('')            : the search text
    selectedId,  \* useState('600')         : the selected station id
    data,        \* useState(null)          : the last response body, or Null
    loading,     \* useState(false)         : the loading flag
    inflight,    \* the axios.get calls awaiting their response, in issue order
    intervals,   \* the armed setInterval callbacks, each with the id it closed over
    interval,    \* the handle held by the current effect's cleanup (0: none)
    phase,       \* "pending" (rendered, effect not yet run), "mounted", "unmounted"
    unhandled,   \* an exception escaped fetchData (an unhandled rejection)
    dataFor,     \* history: the station id the fetch that last wrote data was issued for
    last         \* history: the last event, [op, id, prev]

vars == <<search, selectedId, data, loading, inflight, intervals, interval,
          phase, unhandled, dataFor, last>>

----------------------------------------------------------------------------
(* Bounds of the model. *)

\* The most fetches awaiting their response at once.
MaxInFlight == 2

----------------------------------------------------------------------------
(* The station directory (a three-station excerpt of the table). *)

StationIds == <<"1", "100", "600">>

\* The characters of a station id.
IdText(id) ==
    CASE id = "1"   -> <<"1">>
      [] id = "100" -> <<"1", "0", "0">>
      [] id = "600" -> <<"6", "0", "0">>

STATIONS ==
    [id \in {"1", "100", "600"} |->
        CASE id = "1" ->
               <<"T","u","e","n"," ","M","u","n"," ","F","e","r","r","y"," ",
                 "P","i","e","r"," ","(","u5C6F","u9580","u78BC","u982D",")">>
          [] id = "100" ->
               <<"S","i","u"," ","H","o","n","g"," ","(","u5146","u5EB7",")">>
          [] id = "600" ->
               <<"Y","u","e","n"," ","L","o","n","g"," ","(","u5143","u6717",")">>]

DefaultId == "600"

----------------------------------------------------------------------------
(* String helpers: String.prototype.toLowerCase and includes. *)

UpperCase == <<"A","B","C","D","E","F","G","H","I","J","K","L","M",
               "N","O","P","Q","R","S","T","U","V","W","X","Y","Z">>
LowerCase == <<"a","b","c","d","e","f","g","h","i","j","k","l","m",
               "n","o","p","q","r","s","t","u","v","w","x","y","z">>

ToLowerChar(c) ==
    IF \E i \in 1..Len(UpperCase) : UpperCase[i] = c
    THEN LowerCase[CHOOSE i \in 1..Len(UpperCase) : UpperCase[i] = c]
    ELSE c

toLowerCase(s) == [i \in 1..Len(s) |-> ToLowerChar(s[i])]

\* s.includes(t): t occurs in s as a contiguous substring.
includes(s, t) ==
    \E k \in 0..(Len(s) - Len(t)) :
        \A j \in 1..Len(t) : s[k + j] = t[j]

----------------------------------------------------------------------------
(* The search texts the user types, and the responses the API returns. *)

Queries ==
    { <<>>,                          \* ''
      <<"6", "0", "0">>,             \* an id
      <<"1">>,                       \* an id that is a prefix of another id
      <<"y", "u", "e", "n">>,        \* lower case of part of an English name
      <<"u5143", "u6717">>,          \* a Chinese name
      <<"n">>,                       \* matches every station
      <<"z", "z">> }                 \* matches no station

\* Two route entries (lines 5-14): a coupled train stopped at the platform,
\* and a single train due in three minutes.
Routes ==
    << [train_length |-> 2, arrival_departure |-> "A", dest_en |-> "Yuen Long",
        time_en |-> "-", route_no |-> "610", stop |-> 1],
       [train_length |-> 1, arrival_departure |-> "D", dest_en |-> "Tin Yat",
        time_en |-> "3 min", route_no |-> "761P", stop |-> 0] >>

\* Platforms (lines 16-19): route_list is optional, and may be empty.
PlatformWithRoutes  == [platform_id |-> 1, route_list |-> Routes]
PlatformNoRouteList == [platform_id |-> 1]
PlatformEmptyRoutes == [platform_id |-> 2, route_list |-> <<>>]

\* The platform lists the server sends.
PlatformLists ==
    { <<>>,
      <<PlatformNoRouteList>>,
      <<PlatformWithRoutes>>,
      <<PlatformWithRoutes, PlatformEmptyRoutes>> }

SuccessStatus == 1
StatusCodes == {0, 1}

\* ApiResponse: platform_list is optional (line 24).
Bodies ==
    [status : StatusCodes, system_time : {"2024-01-01 12:00:00"}]
    \cup [status : StatusCodes, system_time : {"2024-01-01 12:00:00"},
          platform_list : PlatformLists]

\* data === null
Null == [null |-> TRUE]

----------------------------------------------------------------------------
(* Rendering (the JSX of lines 135-225). *)

\* filteredStations (lines 104-112), in Object.entries order.
filteredStations(q) ==
    IF q = <<>> THEN StationIds
    ELSE LET lower == toLowerCase(q)
         IN  SelectSeq(StationIds,
                 LAMBDA id : \/ includes(toLowerCase(STATIONS[id]), lower)
                             \/ includes(STATIONS[id], q)
                             \/ IdText(id) = q)

\* The dropdown (lines 146-165): absent unless there is search text.
Dropdown(q) ==
    IF q = <<>> THEN [shown |-> FALSE, items |-> <<>>]
    ELSE [shown |-> TRUE, items |-> filteredStations(q)]

\* The stations a click in the dropdown can select (line 155).
Clickable(q) == { Dropdown(q).items[i] : i \in 1..Len(Dropdown(q).items) }

\* A variant of HasSchedule that does not look at the status.
HasScheduleAnyStatus(d) == d # Null

\* data && data.status === 1 (line 173)
HasSchedule(d) == d # Null /\ d.status = SuccessStatus

\* x?.length is truthy (lines 177, 184)
NonEmptyList(rec, fld) == fld \in DOMAIN rec /\ Len(rec[fld]) > 0

\* One platform card (lines 179-210).
PlatformCard(p) ==
    [platform |-> p.platform_id,
     routes   |-> IF NonEmptyList(p, "route_list")
                  THEN [i \in 1..Len(p.route_list) |->
                          [route_no |-> p.route_list[i].route_no,
                           coupled  |-> p.route_list[i].train_length = 2,
                           arriving |-> p.route_list[i].time_en = "-",
                           stopped  |-> p.route_list[i].stop = 1]]
                  ELSE <<>>,
     notice   |-> IF NonEmptyList(p, "route_list") THEN ""
                  ELSE "No routes available for this platform"]

NoDataMessage == "No data available or service error. Please try again."

\* <main> (lines 170-223)
Main(d, sel, ld) ==
    IF HasSchedule(d)
    THEN [spinner   |-> ld,
          message   |-> IF NonEmptyList(d, "platform_list") THEN ""
                        ELSE "No platform information available.",
          title     |-> STATIONS[sel],
          platforms |-> IF NonEmptyList(d, "platform_list")
                        THEN [i \in 1..Len(d.platform_list) |->
                                PlatformCard(d.platform_list[i])]
                        ELSE <<>>,
          updated   |-> d.system_time]
    ELSE [spinner   |-> ld,
          message   |-> NoDataMessage,
          title     |-> <<>>,
          platforms |-> <<>>,
          updated   |-> ""]

\* What is on screen: nothing once the component is unmounted.
View ==
    IF phase = "unmounted" THEN [mounted |-> FALSE]
    ELSE [mounted  |-> TRUE,
          dropdown |-> Dropdown(search),
          main     |-> Main(data, selectedId, loading)]

----------------------------------------------------------------------------
(* Timers and requests. *)

\* The handle setInterval returns: one no armed timer holds.
FreeHandle(ivs) ==
    CHOOSE h \in 1..(Cardinality(ivs) + 1) :
        /\ \A t \in ivs : t.handle # h
        /\ \A g \in 1..(h - 1) : \E t \in ivs : t.handle = g

\* A variant of clearInterval that clears nothing.
clearIntervalNoOp(ivs, h) == ivs

\* clearInterval(interval) (line 132); clearing a handle no timer holds does nothing.
clearInterval(ivs, h) == { t \in ivs : t.handle # h }

\* setInterval(() => fetchData(selectedId), 20000) (line 131): the callback
\* closes over the selectedId of the render the effect belongs to.
setInterval(ivs, id) == ivs \cup { [handle |-> FreeHandle(ivs), id |-> id] }

\* A variant of DepsChanged for an empty dependency array: the effect runs once.
DepsNever(prev, next) == FALSE

\* The dependency array [selectedId] (line 133): the effect runs again only
\* when the value differs from the previous render's.
DepsChanged(prev, next) == prev # next

\* A request sent by axios.get (line 117).  superseded: a request issued later
\* has already completed.  cancelled: the station was changed, or the view
\* unmounted, while the request was outstanding.  Both are history, read by
\* no action.
Request(id) == [id |-> id, superseded |-> FALSE, cancelled |-> FALSE]

MarkCancelled(fl) == [i \in 1..Len(fl) |-> [fl[i] EXCEPT !.cancelled = TRUE]]

\* fl without its i-th request, the requests issued before it marked superseded.
Completed(fl, i) ==
    [j \in 1..(Len(fl) - 1) |->
        IF j < i THEN [fl[j] EXCEPT !.superseded = TRUE] ELSE fl[j + 1]]

\* React drops a state update of a component that is no longer mounted.
Mounted == phase = "mounted"

Event(op, id) == [op |-> op, id |-> id, prev |-> selectedId]

----------------------------------------------------------------------------
(* The state after the first render, before its effect has run. *)

Init ==
    /\ search = <<>>
    /\ selectedId = DefaultId
    /\ data = Null
    /\ loading = FALSE
    /\ inflight = <<>>
    /\ intervals = {}
    /\ interval = 0
    /\ phase = "pending"
    /\ unhandled = FALSE
    /\ dataFor = "none"
    /\ last = [op |-> "init", id |-> DefaultId, prev |-> DefaultId]

----------------------------------------------------------------------------
(* The effect (lines 129-133). *)

\* The effect's body for the render with selectedId = id, after the previous
\* effect's cleanup: fetchData(id) up to its await (lines 115-117), then
\* setInterval.  fl is the requests outstanding when it runs.
RunEffect(id, fl) ==
    /\ inflight' = Append(fl, Request(id))
    /\ loading' = TRUE
    /\ LET cleaned == clearInterval(intervals, interval)
       IN  /\ intervals' = setInterval(cleaned, id)
           /\ interval' = FreeHandle(cleaned)

\* The component mounts: the first run of the effect.
Mount ==
    /\ phase = "pending"
    /\ phase' = "mounted"
    /\ RunEffect(selectedId, inflight)
    /\ last' = Event("mount", selectedId)
    /\ UNCHANGED <<search, selectedId, data, unhandled, dataFor>>

\* The component unmounts: the effect's cleanup (line 132).
Unmount ==
    /\ phase = "mounted"
    /\ phase' = "unmounted"
    /\ intervals' = clearInterval(intervals, interval)
    /\ interval' = 0
    /\ inflight' = MarkCancelled(inflight)
    /\ last' = Event("unmount", selectedId)
    /\ UNCHANGED <<search, selectedId, data, loading, unhandled, dataFor>>

----------------------------------------------------------------------------
(* User input. *)

\* A variant of SetSearch whose effect also depends on the search text.
SetSearchRefetching(q) ==
    /\ Mounted
    /\ q # search
    /\ Len(inflight) < MaxInFlight
    /\ search' = q
    /\ RunEffect(selectedId, inflight)
    /\ last' = Event("type", selectedId)
    /\ UNCHANGED <<selectedId, data, phase, unhandled, dataFor>>

\* onChange of the search box (line 143): setSearch(e.target.value).
SetSearch(q) ==
    /\ Mounted
    /\ q # search
    /\ search' = q
    /\ last' = Event("type", selectedId)
    /\ UNCHANGED <<selectedId, data, loading, inflight, intervals, interval,
                   phase, unhandled, dataFor>>

\* A variant of Select that leaves the search text as it is.
SelectKeepingSearch(id) ==
    /\ Mounted
    /\ id \in Clickable(search)
    /\ DepsChanged(selectedId, id) => Len(inflight) < MaxInFlight
    /\ selectedId' = id
    /\ search' = search
    /\ IF DepsChanged(selectedId, id)
       THEN RunEffect(id, MarkCancelled(inflight))
       ELSE UNCHANGED <<inflight, loading, intervals, interval>>
    /\ last' = Event("select", id)
    /\ UNCHANGED <<data, phase, unhandled, dataFor>>

\* onClick of a dropdown item (lines 155-158): setSelectedId(id), setSearch(''),
\* then the re-render and, when selectedId changed, the effect's cleanup and
\* its next run.
Select(id) ==
    /\ Mounted
    /\ id \in Clickable(search)
    /\ DepsChanged(selectedId, id) => Len(inflight) < MaxInFlight
    /\ selectedId' = id
    /\ search' = <<>>
    /\ IF DepsChanged(selectedId, id)
       THEN RunEffect(id, MarkCancelled(inflight))
       ELSE UNCHANGED <<inflight, loading, intervals, interval>>
    /\ last' = Event("select", id)
    /\ UNCHANGED <<data, phase, unhandled, dataFor>>

----------------------------------------------------------------------------
(* The timer and the requests. *)

\* An armed timer fires: fetchData(t.id) up to its await (lines 115-117).
Tick(t) ==
    /\ t \in intervals
    /\ Len(inflight) < MaxInFlight
    /\ inflight' = Append(inflight, Request(t.id))
    /\ loading' = IF Mounted THEN TRUE ELSE loading
    /\ last' = Event("tick", t.id)
    /\ UNCHANGED <<search, selectedId, data, intervals, interval, phase,
                   unhandled, dataFor>>

\* The i-th outstanding request is answered with body: setData(res.data),
\* then setLoading(false) (lines 120, 125).
Resolved(i, body) ==
    /\ i \in 1..Len(inflight)
    /\ body \in Bodies
    /\ inflight' = Completed(inflight, i)
    /\ IF Mounted
       THEN data' = body /\ dataFor' = inflight[i].id /\ loading' = FALSE
       ELSE UNCHANGED <<data, dataFor, loading>>
    /\ last' = Event("resolved", inflight[i].id)
    /\ UNCHANGED <<search, selectedId, intervals, interval, phase, unhandled>>

\* A variant of Rejected with no catch block (try/finally only): the error
\* escapes fetchData and the snapshot is left as it was.
RejectedUncaught(i) ==
    /\ i \in 1..Len(inflight)
    /\ inflight' = Completed(inflight, i)
    /\ loading' = IF Mounted THEN FALSE ELSE loading
    /\ unhandled' = TRUE
    /\ last' = Event("rejected", inflight[i].id)
    /\ UNCHANGED <<search, selectedId, data, dataFor, intervals, interval, phase>>

\* The i-th outstanding request fails (network error, timeout, non-2xx): the
\* catch logs, setData(null), then setLoading(false) (lines 121-125).  The
\* catch swallows the error: nothing escapes fetchData.
Rejected(i) ==
    /\ i \in 1..Len(inflight)
    /\ inflight' = Completed(inflight, i)
    /\ IF Mounted
       THEN data' = Null /\ dataFor' = inflight[i].id /\ loading' = FALSE
       ELSE UNCHANGED <<data, dataFor, loading>>
    /\ last' = Event("rejected", inflight[i].id)
    /\ UNCHANGED <<search, selectedId, intervals, interval, phase, unhandled>>

Next ==
    \/ Mount
    \/ Unmount
    \/ \E q \in Queries : SetSearch(q)
    \/ \E id \in DOMAIN STATIONS : Select(id)
    \/ \E t \in intervals : Tick(t)
    \/ \E i \in 1..Len(inflight) : \E body \in Bodies : Resolved(i, body)
    \/ \E i \in 1..Len(inflight) : Rejected(i)

Spec == Init /\ [][Next]_vars

----------------------------------------------------------------------------
(* Shorthands of the properties. *)

\* The i-th outstanding request completes, one way or the other.
Completes(i) == (\E body \in Bodies : Resolved(i, body)) \/ Rejected(i)

\* What the main area shows after the step.
MainAfter == Main(data', selectedId', loading')

\* What the main area shows after the step of a fetch that failed in transport.
MainOfFailure == Main(Null, selectedId', loading')

\* The fetch state of the controller.
fetchState == <<selectedId, data, loading, inflight, intervals>>

\* A response with no usable schedule: not the success status, or no platform,
\* or no route on any platform.
DataUnavailable(body) ==
    \/ body.status # SuccessStatus
    \/ ~NonEmptyList(body, "platform_list")
    \/ \A k \in 1..Len(body.platform_list) :
          ~NonEmptyList(body.platform_list[k], "route_list")

----------------------------------------------------------------------------
(* C1: a fetch that completes after a fetch issued later than it has already
   completed does not change (or clear) the snapshot: the late result is
   discarded. *)
C1_LateResultDiscarded ==
    [][\A i \in 1..Len(inflight) :
          (inflight[i].superseded /\ Completes(i)) => data' = data]_vars

(* C2: whenever a schedule is displayed under the selected station's title,
   the snapshot held was produced by a fetch issued for the selected station. *)
C2_DisplayedIsForSelected ==
    (Mounted /\ HasSchedule(data)) => dataFor = selectedId

(* C3: every fetch issued by a tick of the timer is for the station id that is
   selected at the moment of the tick. *)
C3_TickFetchesSelected ==
    last.op = "tick" => last.id = selectedId

\* C3's case: a tick after the selection was changed from the default.
C3_Witness ==
    /\ last.op = "tick"
    /\ selectedId # DefaultId
    /\ inflight # <<>>
    /\ inflight[Len(inflight)].id = selectedId

(* C4: exactly one timer is armed while the view is mounted, none is armed
   after it is torn down, and no tick fetches after teardown. *)
C4_OneTimerWhileMounted ==
    /\ phase = "mounted" => Cardinality(intervals) = 1
    /\ phase = "unmounted" => intervals = {}
    /\ last.op = "tick" => phase = "mounted"

\* C4's case: torn down after the selection was changed.
C4_Witness ==
    /\ phase = "unmounted"
    /\ selectedId # DefaultId
    /\ intervals = {}

(* C5: after a fetch of the mounted view ends in a transport failure, the
   snapshot is absent, the loading flag is false, the view shows the "no data
   available" message and no exception has escaped fetchData. *)
C5_FailureClears ==
    (last.op = "rejected" /\ Mounted) =>
        /\ data = Null
        /\ loading = FALSE
        /\ View.main.message = NoDataMessage
        /\ View.main.platforms = <<>>
        /\ unhandled = FALSE

\* C5's case: a transport failure of a fetch of the mounted view.
C5_Witness ==
    /\ last.op = "rejected"
    /\ Mounted
    /\ data = Null
    /\ View.main.message = NoDataMessage

(* C6, as stated: a fetch that completes as DataUnavailable leaves the view as
   a transport failure does: the snapshot cleared to absent and the generic
   "no data available" message shown. *)
C6_UnavailableLikeFailure ==
    [][\A i \in 1..Len(inflight) : \A body \in Bodies :
          (Mounted /\ last'.op = "resolved" /\ Resolved(i, body)
             /\ DataUnavailable(body)) =>
              (data' = Null /\ MainAfter = MainOfFailure)]_vars

(* C6, amended: a response whose status is not the success code is kept as the
   stored snapshot, and the view shows what it shows after a transport failure
   (the generic message, nothing of the response); a response with the success
   status is rendered under the station title even when its platform list is
   absent or empty, with a notice in place of the platforms. *)
C6_UnavailableAmended ==
    [][\A i \in 1..Len(inflight) : \A body \in Bodies :
          (Mounted /\ last'.op = "resolved" /\ Resolved(i, body)) =>
              /\ data' = body
              /\ body.status # SuccessStatus => MainAfter = MainOfFailure
              /\ body.status = SuccessStatus =>
                    /\ MainAfter.title = STATIONS[selectedId']
                    /\ MainAfter.message # NoDataMessage
                    /\ (MainAfter.platforms = <<>>)
                          <=> ~NonEmptyList(body, "platform_list")
                    /\ \A k \in 1..Len(MainAfter.platforms) :
                          (MainAfter.platforms[k].routes = <<>>)
                             <=> ~NonEmptyList(body.platform_list[k], "route_list")]_vars

\* C6's case: a response without the success status, carrying a platform.
C6_Witness ==
    /\ last.op = "resolved"
    /\ Mounted
    /\ data # Null
    /\ data.status # SuccessStatus
    /\ NonEmptyList(data, "platform_list")
    /\ View.main.message = NoDataMessage

(* C7, as stated: selecting any station of the dropdown leaves the search text
   empty, the selected id the chosen one, the loading flag true and a fetch
   for the chosen id issued. *)
C7_SelectAlwaysFetches ==
    [][\A id \in DOMAIN STATIONS :
          (last'.op = "select" /\ Select(id)) =>
              /\ search' = <<>>
              /\ selectedId' = id
              /\ loading' = TRUE
              /\ Len(inflight') = Len(inflight) + 1
              /\ inflight'[Len(inflight')].id = id]_vars

(* C7, amended: selecting a station other than the selected one leaves the
   search text empty, the selected id the chosen one, the loading flag true
   and a fetch for the chosen id issued; selecting the station that is already
   selected only empties the search text. *)
C7_SelectAmended ==
    [][\A id \in DOMAIN STATIONS :
          (last'.op = "select" /\ Select(id)) =>
              /\ search' = <<>>
              /\ selectedId' = id
              /\ id # selectedId =>
                    /\ loading' = TRUE
                    /\ Len(inflight') = Len(inflight) + 1
                    /\ inflight'[Len(inflight')].id = id
              /\ id = selectedId => UNCHANGED fetchState]_vars

\* C7's case: another station selected while a fetch was outstanding.
C7_Witness ==
    /\ last.op = "select"
    /\ last.prev # last.id
    /\ selectedId = last.id
    /\ search = <<>>
    /\ loading
    /\ Len(inflight) = 2
    /\ inflight[2] = Request(selectedId)

(* C8: a fetch outstanding when the station was changed or the view unmounted
   changes neither the snapshot nor the loading flag when it completes. *)
C8_CancelledHasNoEffect ==
    [][\A i \in 1..Len(inflight) :
          (inflight[i].cancelled /\ Completes(i)) =>
              UNCHANGED <<data, loading>>]_vars

(* C9: typing in the search box leaves the selected id, the snapshot, the
   loading flag, the outstanding fetches and the armed timer unchanged; while
   the view is mounted the fetch state changes only in a step that selects a
   station, ticks the timer or completes a fetch. *)
C9_TypingLeavesFetchState ==
    [][/\ \A q \in Queries : SetSearch(q) => UNCHANGED fetchState
       /\ (Mounted /\ phase' = "mounted" /\ fetchState' # fetchState) =>
             \/ \E i \in 1..Len(inflight) : Completes(i)
             \/ \E t \in intervals : Tick(t)
             \/ \E id \in DOMAIN STATIONS : Select(id)]_vars

\* C9's case: a query matching no station typed while a fetch is outstanding
\* and a snapshot is held.
C9_Witness ==
    /\ last.op = "type"
    /\ Dropdown(search).shown
    /\ Dropdown(search).items = <<>>
    /\ inflight # <<>>
    /\ data # Null

(* C10: the loading flag is true exactly when at least one fetch is
   outstanding. *)
C10_LoadingIffInFlight ==
    Mounted => (loading <=> inflight # <<>>)

====
